---- MODULE Spec2Model ----
(***************************************************************************)
(* The interactive line editor of examples/zle_interactive.c: the line     *)
(* buffer (zleline, zlecs, zlell, linesz), the history list, the read loop *)
(* readline_zle with its escape-sequence reads, the nested reverse search  *)
(* and main's accept / parse / history loop.                               *)
(*                                                                         *)
(* Strings are sequences of bytes (integers).  C indices are kept 0-based: *)
(* history[i] of the source is history[i + 1] here.                        *)
(***************************************************************************)
EXTENDS Integers, Sequences, FiniteSets, TLC

VARIABLES
    pc,                 \* where the program is blocked / what main does next
    zleline,            \* the units of the line in use, zleline[0 .. zlell)
    zlecs,              \* cursor position
    zlell,              \* line length
    linesz,             \* allocated size of the line
    history,            \* history[0 .. history_count)
    history_pos,        \* position while browsing the history
    saved_line,         \* the in-progress line saved by Up, or NULL
    search_buf,         \* reverse_search: the pattern
    search_pos,         \* reverse_search: where the scan starts
    found_pos,          \* reverse_search: the match, or -1
    line,               \* main: what readline_zle returned
    events,             \* main: the calls made for the current line, in order
    raw_mode,           \* terminal state flag
    atexit_registered,  \* enable_raw_mode's static flag
    tty,                \* whether stdin is a terminal (tcgetattr succeeds)
    stdin,              \* the input stream: its bytes and the read offset
    thingytab,          \* the table of thingies: name -> record
    reg_status          \* what the last call on the table returned

vars == <<pc, zleline, zlecs, zlell, linesz, history, history_pos, saved_line,
          search_buf, search_pos, found_pos, line, events, raw_mode,
          atexit_registered, tty, stdin, thingytab, reg_status>>

(***************************************************************************)
(* Bounds of the model.                                                    *)
(***************************************************************************)
\* Longest line typed at an interactive terminal.
MaxLen == 2
\* Longest fragment inserted in one go.
MaxFrag == 2
\* HISTORY_MAX of the source (100), scaled down.
HISTORY_MAX == 2
\* sizeof(search_buf) of the source (256), scaled down.
SearchBufSize == 3
\* The initial allocation readline_zle asks for, sizeline(256), scaled down.
InitLineSz == 2

(***************************************************************************)
(* Bytes.                                                                  *)
(***************************************************************************)
EOF == -1
CtrlA == 1
CtrlC == 3
CtrlD == 4
CtrlE == 5
CtrlG == 7
CtrlH == 8
LF == 10
CtrlK == 11
CR == 13
CtrlR == 18
CtrlU == 21
ESC == 27
DEL == 127
\* The unit spaceinline leaves in the gap it opens (overwritten by the caller).
GAP == 0

NULL == <<-1>>

\* stdin as a terminal: what will be typed is not known in advance.
Terminal == [scripted |-> FALSE, buf |-> <<>>, pos |-> 0]
\* stdin as a finite byte stream s, nothing read yet.
Pipe(s) == [scripted |-> TRUE, buf |-> s, pos |-> 0]

IsPrintable(c) == c >= 32 /\ c < 127

strlen(s) == Len(s)

\* strstr(h, n) != NULL
strstr(h, n) ==
    \E i \in 0..(Len(h) - Len(n)) : SubSeq(h, i + 1, i + Len(n)) = n

history_count == Len(history)

(***************************************************************************)
(* The line buffer.  A buffer value b is [zleline, zlecs, zlell, linesz].  *)
(***************************************************************************)
Buf == [zleline |-> zleline, zlecs |-> zlecs, zlell |-> zlell, linesz |-> linesz]

SetBuf(b) ==
    /\ zleline' = b.zleline
    /\ zlecs' = b.zlecs
    /\ zlell' = b.zlell
    /\ linesz' = b.linesz

RECURSIVE GrowTo(_, _)
GrowTo(cur, sz) ==
    IF sz <= cur THEN cur
    ELSE GrowTo(IF cur < InitLineSz THEN InitLineSz ELSE cur * 2, sz)

\* sizeline(sz): capacity grows geometrically until it holds sz, never shrinks.
sizeline(b, sz) == [b EXCEPT !.linesz = GrowTo(b.linesz, sz)]

\* spaceinline(ct): open a gap of ct units at the cursor; length grows by ct.
spaceinline(b, ct) ==
    LET g == sizeline(b, ct + b.zlell)
    IN  [g EXCEPT !.zleline = SubSeq(b.zleline, 1, b.zlecs)
                              \o [i \in 1..ct |-> GAP]
                              \o SubSeq(b.zleline, b.zlecs + 1, b.zlell),
                  !.zlell = b.zlell + ct]

Min(a, b) == IF a < b THEN a ELSE b

\* foredel(ct, 0): remove ct units at the cursor, clamped to length - cursor.
foredel(b, ct) ==
    LET n == Min(ct, b.zlell - b.zlecs)
    IN  [b EXCEPT !.zleline = SubSeq(b.zleline, 1, b.zlecs)
                              \o SubSeq(b.zleline, b.zlecs + n + 1, b.zlell),
                  !.zlell = b.zlell - n]

\* backdel(ct, 0): move the cursor back min(ct, cursor), then delete forward.
backdel(b, ct) ==
    LET n == Min(ct, b.zlecs)
    IN  foredel([b EXCEPT !.zlecs = b.zlecs - n], n)

\* zlelineasstring(zleline, zlell, zlecs, ...): the units [0, zlell) as a string.
zlelineasstring(b) == SubSeq(b.zleline, 1, b.zlell)

\* insert_char without the call of spaceinline.
insert_char_nospace(b, c) ==
    [b EXCEPT !.zleline = [b.zleline EXCEPT ![b.zlecs + 1] = c],
              !.zlecs = b.zlecs + 1]

\* insert_char leaving the cursor before the character it stored.
insert_char_cursor_stays(b, c) ==
    LET g == spaceinline(b, 1)
    IN  [g EXCEPT !.zleline = [g.zleline EXCEPT ![g.zlecs + 1] = c]]

\* insert_char storing the character after the end of the line.
insert_char_at_end(b, c) ==
    LET g == spaceinline([b EXCEPT !.zlecs = b.zlell], 1)
    IN  [g EXCEPT !.zleline = [g.zleline EXCEPT ![g.zlell] = c],
                  !.zlecs = b.zlecs + 1]

insert_char(b, c) ==
    LET g == spaceinline(b, 1)
    IN  [g EXCEPT !.zleline = [g.zleline EXCEPT ![g.zlecs + 1] = c],
                  !.zlecs = g.zlecs + 1]

\* The fragment s typed at the cursor, one insert_char per character.
RECURSIVE insert(_, _)
insert(b, s) ==
    IF s = <<>> THEN b ELSE insert(insert_char(b, Head(s)), Tail(s))

\* set_line_from_string leaving the cursor at the start of the line.
set_line_from_string_cursor0(b, s) ==
    LET cleared == [b EXCEPT !.zlell = 0, !.zlecs = 0, !.zleline = <<>>]
    IN  IF s # NULL /\ s # <<>>
        THEN LET g == sizeline(cleared, strlen(s) + 1)
             IN  [g EXCEPT !.zleline = s, !.zlell = strlen(s)]
        ELSE cleared

set_line_from_string(b, s) ==
    LET cleared == [b EXCEPT !.zlell = 0, !.zlecs = 0, !.zleline = <<>>]
    IN  IF s # NULL /\ s # <<>>
        THEN LET g == sizeline(cleared, strlen(s) + 1)
             IN  [g EXCEPT !.zleline = s, !.zlell = strlen(s), !.zlecs = strlen(s)]
        ELSE cleared

(***************************************************************************)
(* History.                                                                *)
(***************************************************************************)
\* history_add without the check against the last entry.
history_add_nodup(h, s) ==
    IF s = NULL \/ s = <<>> THEN h
    ELSE IF Len(h) >= HISTORY_MAX THEN Append(SubSeq(h, 2, Len(h)), s)
    ELSE Append(h, s)

\* history_add evicting only once the list is past HISTORY_MAX.
history_add_late_evict(h, s) ==
    IF s = NULL \/ s = <<>> THEN h
    ELSE IF Len(h) > 0 /\ h[Len(h)] = s THEN h
    ELSE IF Len(h) > HISTORY_MAX THEN Append(SubSeq(h, 2, Len(h)), s)
    ELSE Append(h, s)

\* history_add comparing the new line with the oldest entry.
history_add_dup_oldest(h, s) ==
    IF s = NULL \/ s = <<>> THEN h
    ELSE IF Len(h) > 0 /\ h[1] = s THEN h
    ELSE IF Len(h) >= HISTORY_MAX THEN Append(SubSeq(h, 2, Len(h)), s)
    ELSE Append(h, s)

history_add(h, s) ==
    IF s = NULL \/ s = <<>> THEN h
    ELSE IF Len(h) > 0 /\ h[Len(h)] = s THEN h
    ELSE IF Len(h) >= HISTORY_MAX THEN Append(SubSeq(h, 2, Len(h)), s)
    ELSE Append(h, s)

(***************************************************************************)
(* Terminal mode.                                                          *)
(***************************************************************************)
disable_raw_mode == raw_mode' = 0

enable_raw_mode ==
    IF raw_mode = 1 \/ ~tty
    THEN UNCHANGED <<raw_mode, atexit_registered>>
    ELSE raw_mode' = 1 /\ atexit_registered' = 1

(***************************************************************************)
(* Input.  At a terminal any key may come next; the model draws it from    *)
(* the keys that matter where the program is blocked.  Otherwise stdin is  *)
(* a finite queue of bytes and getchar returns EOF once it is empty.       *)
(***************************************************************************)
Letters == {97, 98}

LineKeys ==
    {EOF, CR, LF, CtrlC, CtrlD, CtrlA, CtrlE, CtrlK, CtrlR, CtrlU, DEL, CtrlH,
     ESC, 2, 200} \cup (IF zlell < MaxLen THEN Letters ELSE {})

EscKeys == {EOF, 91, 79}

CsiKeys == {EOF, 65, 66, 67, 68, 72, 70, 51, 90}

TildeKeys == {EOF, 126, 97}

SearchKeys ==
    {EOF, CR, LF, CtrlG, ESC, CtrlR, DEL, CtrlH, CtrlC, 2, 200} \cup Letters

TerminalKeys ==
    CASE pc = "ReadingLine" -> LineKeys
      [] pc = "Esc" -> EscKeys
      [] pc = "EscBracket" -> CsiKeys
      [] pc = "Esc3" -> TildeKeys
      [] pc = "ReverseSearch" -> SearchKeys
      [] OTHER -> {}

\* The bytes of a finite stream not read yet.
Unread == SubSeq(stdin.buf, stdin.pos + 1, Len(stdin.buf))

\* The bytes getchar() may return now.
Pending ==
    IF ~stdin.scripted THEN TerminalKeys
    ELSE IF Unread = <<>> THEN {EOF}
    ELSE {Head(Unread)}

\* getchar() advances the stream.
Consume ==
    stdin' = IF ~stdin.scripted \/ Unread = <<>> THEN stdin
             ELSE [stdin EXCEPT !.pos = stdin.pos + 1]

bufVars == <<zleline, zlecs, zlell, linesz>>
histVars == <<history, history_pos, saved_line>>
searchVars == <<search_buf, search_pos, found_pos>>
mainVars == <<line, events>>
termVars == <<raw_mode, atexit_registered, tty>>
regVars == <<thingytab, reg_status>>

\* readline_zle returns NULL.
ReturnNull ==
    /\ pc' = "Cancelled"
    /\ line' = NULL
    /\ UNCHANGED <<bufVars, histVars, events, termVars, regVars>>

\* A key handled without leaving the read loop: the buffer becomes b.
Edit(b) ==
    /\ SetBuf(b)
    /\ pc' = "ReadingLine"
    /\ UNCHANGED <<histVars, searchVars, mainVars, termVars, regVars>>

(***************************************************************************)
(* readline_zle: the keys read in ReadingLine.                             *)
(***************************************************************************)
RlEOF ==
    /\ pc = "ReadingLine"
    /\ \E c \in Pending : c = EOF
    /\ Consume
    /\ ReturnNull
    /\ UNCHANGED searchVars

AcceptLine ==
    /\ pc = "ReadingLine"
    /\ \E c \in Pending : c \in {CR, LF}
    /\ Consume
    /\ pc' = "Done"
    /\ line' = zlelineasstring(Buf)
    /\ UNCHANGED <<bufVars, histVars, searchVars, events, termVars, regVars>>

Interrupt ==
    /\ pc = "ReadingLine"
    /\ \E c \in Pending : c = CtrlC
    /\ Consume
    /\ ReturnNull
    /\ UNCHANGED searchVars

DeleteCharOrEOF ==
    /\ pc = "ReadingLine"
    /\ \E c \in Pending : c = CtrlD
    /\ Consume
    /\ IF zlell = 0
       THEN ReturnNull /\ UNCHANGED searchVars
       ELSE Edit(IF zlecs < zlell THEN foredel(Buf, 1) ELSE Buf)

BeginningOfLine ==
    /\ pc = "ReadingLine"
    /\ \E c \in Pending : c = CtrlA
    /\ Consume
    /\ Edit([Buf EXCEPT !.zlecs = 0])

EndOfLine ==
    /\ pc = "ReadingLine"
    /\ \E c \in Pending : c = CtrlE
    /\ Consume
    /\ Edit([Buf EXCEPT !.zlecs = zlell])

KillLine ==
    /\ pc = "ReadingLine"
    /\ \E c \in Pending : c = CtrlK
    /\ Consume
    /\ Edit(IF zlecs < zlell THEN foredel(Buf, zlell - zlecs) ELSE Buf)

KillWholeLine ==
    /\ pc = "ReadingLine"
    /\ \E c \in Pending : c = CtrlU
    /\ Consume
    /\ Edit(IF zlell > 0 THEN foredel([Buf EXCEPT !.zlecs = 0], zlell) ELSE Buf)

BackwardDeleteChar ==
    /\ pc = "ReadingLine"
    /\ \E c \in Pending : c \in {DEL, CtrlH}
    /\ Consume
    /\ Edit(IF zlecs > 0 THEN backdel(Buf, 1) ELSE Buf)

EscapeKey ==
    /\ pc = "ReadingLine"
    /\ \E c \in Pending : c = ESC
    /\ Consume
    /\ pc' = "Esc"
    /\ UNCHANGED <<bufVars, histVars, searchVars, mainVars, termVars, regVars>>

HandledKeys ==
    {EOF, CR, LF, CtrlC, CtrlD, CtrlA, CtrlE, CtrlK, CtrlR, CtrlU, DEL, CtrlH, ESC}

\* The default branch inserting whatever byte it is given.
DefaultKeyReadInsertsAll(c) == Edit(insert_char(Buf, c))

\* The default branch of the switch, for the byte c.
DefaultKeyRead(c) == Edit(IF IsPrintable(c) THEN insert_char(Buf, c) ELSE Buf)

DefaultKey ==
    /\ pc = "ReadingLine"
    /\ \E c \in Pending \ HandledKeys : DefaultKeyRead(c)
    /\ Consume

(***************************************************************************)
(* readline_zle: the bytes read after ESC.                                 *)
(***************************************************************************)
EscSecond ==
    /\ pc = "Esc"
    /\ \E c \in Pending :
          IF c = EOF THEN ReturnNull
          ELSE /\ pc' = IF c = 91 THEN "EscBracket" ELSE "ReadingLine"
               /\ UNCHANGED <<bufVars, histVars, mainVars, termVars, regVars>>
    /\ Consume
    /\ UNCHANGED searchVars

\* case 'A' without its break: Up falls through into Down, two actions
\* for one key.
UpHistoryFallsThrough ==
    /\ pc = "EscBracket"
    /\ \E c \in Pending : c = 65
    /\ Consume
    /\ pc' = "ReadingLine"
    /\ LET up_pos == IF history_pos > 0 THEN history_pos - 1 ELSE history_pos
           up_saved == IF history_pos > 0 /\ history_pos = history_count
                       THEN zlelineasstring(Buf) ELSE saved_line
           up_buf == IF history_pos > 0
                     THEN set_line_from_string(Buf, history[history_pos])
                     ELSE Buf
       IN  /\ saved_line' = up_saved
           /\ IF up_pos < history_count
              THEN /\ history_pos' = up_pos + 1
                   /\ SetBuf(set_line_from_string(up_buf,
                          IF up_pos + 1 = history_count
                          THEN up_saved ELSE history[up_pos + 2]))
              ELSE /\ history_pos' = up_pos
                   /\ SetBuf(up_buf)
    /\ UNCHANGED <<history, searchVars, mainVars, termVars, regVars>>

\* Up writing the edited text back into the entry it leaves.
UpHistoryStoresEdit ==
    /\ pc = "EscBracket"
    /\ \E c \in Pending : c = 65
    /\ Consume
    /\ pc' = "ReadingLine"
    /\ IF history_pos > 0
       THEN /\ saved_line' = IF history_pos = history_count
                             THEN zlelineasstring(Buf) ELSE saved_line
            /\ history' = IF history_pos < history_count
                          THEN [history EXCEPT ![history_pos + 1] = zlelineasstring(Buf)]
                          ELSE history
            /\ history_pos' = history_pos - 1
            /\ SetBuf(set_line_from_string(Buf, history[history_pos - 1 + 1]))
       ELSE UNCHANGED <<history, saved_line, history_pos, bufVars>>
    /\ UNCHANGED <<searchVars, mainVars, termVars, regVars>>

\* Up without the copy of the line in progress.
UpHistoryNoSave ==
    /\ pc = "EscBracket"
    /\ \E c \in Pending : c = 65
    /\ Consume
    /\ pc' = "ReadingLine"
    /\ IF history_pos > 0
       THEN /\ history_pos' = history_pos - 1
            /\ SetBuf(set_line_from_string(Buf, history[history_pos - 1 + 1]))
       ELSE UNCHANGED <<history_pos, bufVars>>
    /\ UNCHANGED <<history, saved_line, searchVars, mainVars, termVars, regVars>>

UpHistory ==
    /\ pc = "EscBracket"
    /\ \E c \in Pending : c = 65
    /\ Consume
    /\ pc' = "ReadingLine"
    /\ IF history_pos > 0
       THEN /\ saved_line' = IF history_pos = history_count
                             THEN zlelineasstring(Buf) ELSE saved_line
            /\ history_pos' = history_pos - 1
            /\ SetBuf(set_line_from_string(Buf, history[history_pos - 1 + 1]))
       ELSE UNCHANGED <<saved_line, history_pos, bufVars>>
    /\ UNCHANGED <<history, searchVars, mainVars, termVars, regVars>>

\* Down reaching the newest position without restoring the saved line.
DownHistoryNoRestore ==
    /\ pc = "EscBracket"
    /\ \E c \in Pending : c = 66
    /\ Consume
    /\ pc' = "ReadingLine"
    /\ IF history_pos < history_count
       THEN /\ history_pos' = history_pos + 1
            /\ SetBuf(IF history_pos + 1 = history_count
                      THEN Buf
                      ELSE set_line_from_string(Buf, history[history_pos + 1 + 1]))
       ELSE UNCHANGED <<history_pos, bufVars>>
    /\ UNCHANGED <<history, saved_line, searchVars, mainVars, termVars, regVars>>

DownHistory ==
    /\ pc = "EscBracket"
    /\ \E c \in Pending : c = 66
    /\ Consume
    /\ pc' = "ReadingLine"
    /\ IF history_pos < history_count
       THEN /\ history_pos' = history_pos + 1
            /\ SetBuf(set_line_from_string(Buf,
                   IF history_pos + 1 = history_count
                   THEN saved_line ELSE history[history_pos + 1 + 1]))
       ELSE UNCHANGED <<history_pos, bufVars>>
    /\ UNCHANGED <<history, saved_line, searchVars, mainVars, termVars, regVars>>

\* Right arrow without the test against the length.
ForwardCharNoClamp ==
    /\ pc = "EscBracket"
    /\ \E c \in Pending : c = 67
    /\ Consume
    /\ Edit([Buf EXCEPT !.zlecs = zlecs + 1])

ForwardChar ==
    /\ pc = "EscBracket"
    /\ \E c \in Pending : c = 67
    /\ Consume
    /\ Edit(IF zlecs < zlell THEN [Buf EXCEPT !.zlecs = zlecs + 1] ELSE Buf)

\* Left arrow handled as Right arrow.
BackwardCharMovesRight ==
    /\ pc = "EscBracket"
    /\ \E c \in Pending : c = 68
    /\ Consume
    /\ Edit(IF zlecs < zlell THEN [Buf EXCEPT !.zlecs = zlecs + 1] ELSE Buf)

BackwardChar ==
    /\ pc = "EscBracket"
    /\ \E c \in Pending : c = 68
    /\ Consume
    /\ Edit(IF zlecs > 0 THEN [Buf EXCEPT !.zlecs = zlecs - 1] ELSE Buf)

HomeKey ==
    /\ pc = "EscBracket"
    /\ \E c \in Pending : c = 72
    /\ Consume
    /\ Edit([Buf EXCEPT !.zlecs = 0])

EndKey ==
    /\ pc = "EscBracket"
    /\ \E c \in Pending : c = 70
    /\ Consume
    /\ Edit([Buf EXCEPT !.zlecs = zlell])

DeleteKeyStart ==
    /\ pc = "EscBracket"
    /\ \E c \in Pending : c = 51
    /\ Consume
    /\ pc' = "Esc3"
    /\ UNCHANGED <<bufVars, histVars, searchVars, mainVars, termVars, regVars>>

CsiKeysHandled == {65, 66, 67, 68, 72, 70, 51}

\* EOF after ESC [, or a final byte the inner switch has no case for.
CsiOtherRead(c) ==
    IF c = EOF THEN ReturnNull
    ELSE /\ pc' = "ReadingLine"
         /\ UNCHANGED <<bufVars, histVars, mainVars, termVars, regVars>>

CsiOther ==
    /\ pc = "EscBracket"
    /\ \E c \in Pending \ CsiKeysHandled : CsiOtherRead(c)
    /\ Consume
    /\ UNCHANGED searchVars

\* The byte after ESC [ 3 (meant to be ~) is consumed whatever it is.
DeleteKeyRead(c) ==
    IF c = EOF THEN ReturnNull /\ UNCHANGED searchVars
    ELSE Edit(IF zlecs < zlell THEN foredel(Buf, 1) ELSE Buf)

DeleteKey ==
    /\ pc = "Esc3"
    /\ \E c \in Pending : DeleteKeyRead(c)
    /\ Consume

(***************************************************************************)
(* reverse_search.                                                         *)
(***************************************************************************)
search_len == Len(search_buf)

\* The scan running from the oldest entry up to i.
ScanOldestFirst(h, buf, i) ==
    LET M == {j \in 0..i : strstr(h[j + 1], buf)}
    IN  IF M = {} THEN -1 ELSE CHOOSE j \in M : \A k \in M : j <= k

\* The scan loop: for (i = from; i >= 0; i--) if (strstr(h[i], buf)) return i.
RECURSIVE Scan(_, _, _)
Scan(h, buf, i) ==
    IF i < 0 THEN -1
    ELSE IF strstr(h[i + 1], buf) THEN i
    ELSE Scan(h, buf, i - 1)

\* "Search backwards for match", with the pattern and start the key left.
SearchAgain ==
    found_pos' = Scan(history, search_buf', search_pos' - 1)

\* reverse_search returns 0: its locals are gone, the read loop goes on.
LeaveSearch ==
    /\ pc' = "ReadingLine"
    /\ search_buf' = <<>>
    /\ search_pos' = 0
    /\ found_pos' = -1

\* Ctrl+R in ReadingLine: reverse_search starts.
ReverseSearchKey ==
    /\ pc = "ReadingLine"
    /\ \E c \in Pending : c = CtrlR
    /\ Consume
    /\ pc' = "ReverseSearch"
    /\ search_buf' = <<>>
    /\ search_pos' = history_count
    /\ found_pos' = -1
    /\ UNCHANGED <<bufVars, histVars, mainVars, termVars, regVars>>

\* EOF in reverse_search: it returns -1 and readline_zle returns NULL.
\* EOF in reverse_search handled like cancel: back to the line.
RsEOFLeavesSearch ==
    /\ pc = "ReverseSearch"
    /\ \E c \in Pending : c = EOF
    /\ Consume
    /\ LeaveSearch
    /\ UNCHANGED <<bufVars, histVars, mainVars, termVars, regVars>>

RsEOF ==
    /\ pc = "ReverseSearch"
    /\ \E c \in Pending : c = EOF
    /\ Consume
    /\ ReturnNull
    /\ search_buf' = <<>>
    /\ search_pos' = 0
    /\ found_pos' = -1

\* Enter in reverse search clearing the line when nothing matched.
RsAcceptClearsOnMiss ==
    /\ pc = "ReverseSearch"
    /\ \E c \in Pending : c \in {CR, LF}
    /\ Consume
    /\ SetBuf(set_line_from_string(Buf, IF found_pos >= 0
                                        THEN history[found_pos + 1]
                                        ELSE <<>>))
    /\ LeaveSearch
    /\ UNCHANGED <<histVars, mainVars, termVars, regVars>>

RsAccept ==
    /\ pc = "ReverseSearch"
    /\ \E c \in Pending : c \in {CR, LF}
    /\ Consume
    /\ SetBuf(IF found_pos >= 0
              THEN set_line_from_string(Buf, history[found_pos + 1])
              ELSE Buf)
    /\ LeaveSearch
    /\ UNCHANGED <<histVars, mainVars, termVars, regVars>>

\* Cancel handled like accept: the match is loaded into the line.
RsCancelLoadsMatch ==
    /\ pc = "ReverseSearch"
    /\ \E c \in Pending : c \in {CtrlG, ESC}
    /\ Consume
    /\ SetBuf(IF found_pos >= 0
              THEN set_line_from_string(Buf, history[found_pos + 1])
              ELSE Buf)
    /\ LeaveSearch
    /\ UNCHANGED <<histVars, mainVars, termVars, regVars>>

RsCancel ==
    /\ pc = "ReverseSearch"
    /\ \E c \in Pending : c \in {CtrlG, ESC}
    /\ Consume
    /\ LeaveSearch
    /\ UNCHANGED <<bufVars, histVars, mainVars, termVars, regVars>>

RsSearchMore ==
    /\ pc = "ReverseSearch"
    /\ \E c \in Pending : c = CtrlR
    /\ Consume
    /\ search_pos' = IF found_pos > 0 THEN found_pos ELSE search_pos
    /\ search_buf' = search_buf
    /\ SearchAgain
    /\ UNCHANGED <<pc, bufVars, histVars, mainVars, termVars, regVars>>

\* Backspace in the search without "restart search".
RsBackspaceKeepsPos ==
    /\ pc = "ReverseSearch"
    /\ \E c \in Pending : c \in {DEL, CtrlH}
    /\ Consume
    /\ search_buf' = IF search_len > 0
                     THEN SubSeq(search_buf, 1, search_len - 1) ELSE search_buf
    /\ search_pos' = search_pos
    /\ SearchAgain
    /\ UNCHANGED <<pc, bufVars, histVars, mainVars, termVars, regVars>>

RsBackspace ==
    /\ pc = "ReverseSearch"
    /\ \E c \in Pending : c \in {DEL, CtrlH}
    /\ Consume
    /\ IF search_len > 0
       THEN /\ search_buf' = SubSeq(search_buf, 1, search_len - 1)
            /\ search_pos' = history_count
       ELSE UNCHANGED <<search_buf, search_pos>>
    /\ SearchAgain
    /\ UNCHANGED <<pc, bufVars, histVars, mainVars, termVars, regVars>>

RsHandledKeys == {EOF, CR, LF, CtrlG, ESC, CtrlR, DEL, CtrlH}

RsChar ==
    /\ pc = "ReverseSearch"
    /\ \E c \in Pending \ RsHandledKeys :
          /\ IsPrintable(c)
          /\ search_buf' = IF search_len < SearchBufSize - 1
                           THEN Append(search_buf, c) ELSE search_buf
    /\ Consume
    /\ search_pos' = search_pos
    /\ SearchAgain
    /\ UNCHANGED <<pc, bufVars, histVars, mainVars, termVars, regVars>>

\* Any other byte: continue, without searching again.
RsOther ==
    /\ pc = "ReverseSearch"
    /\ \E c \in Pending \ RsHandledKeys : ~IsPrintable(c)
    /\ Consume
    /\ UNCHANGED <<pc, bufVars, histVars, searchVars, mainVars, termVars, regVars>>

(***************************************************************************)
(* The table of thingies.  init_thingies fills it from the generated       *)
(* thingies.list: for every widget name n of iwidgets.list a record        *)
(* T("n", 0, w_n, ...) and an immortal record T(".n", TH_IMMORTAL, w_n,    *)
(* ...).  A record is a builtin operation or an alias of another name.     *)
(***************************************************************************)
\* The widget names of iwidgets.list kept in the model.
IWidgets == {"accept-line"}

UserNames == {"a", "b", "c"}

DotNames == {"." \o n : n \in IWidgets}

ThingyNames == IWidgets \cup DotNames \cup UserNames

\* w_n, the widget of the name n or .n ("accept-line" -> w_acceptline).
w(n) == IF n \in IWidgets THEN <<"w", n>> ELSE <<"w", CHOOSE m \in IWidgets : n = "." \o m>>

BuiltinOps == {w(n) : n \in IWidgets}

\* An operation supplied by the user.
UserOps == {<<"user-widget">>}

NoThingy == [kind |-> "None"]

T(op, immortal) == [kind |-> "Builtin", op |-> op, immortal |-> immortal]

Alias(target) == [kind |-> "Alias", target |-> target, immortal |-> FALSE]

IsImmortal(tab, name) == tab[name].kind # "None" /\ tab[name].immortal

init_thingies ==
    [n \in ThingyNames |->
        IF n \in IWidgets THEN T(w(n), FALSE)
        ELSE IF n \in DotNames THEN T(w(n), TRUE)
        ELSE NoThingy]

\* resolve following one alias only.
resolve_one_hop(tab, name) ==
    IF tab[name].kind = "None" THEN [res |-> "UnboundName", hops |-> 0]
    ELSE IF tab[name].kind = "Builtin"
    THEN [res |-> "ok", op |-> tab[name].op, hops |-> 1]
    ELSE IF tab[tab[name].target].kind = "Builtin"
    THEN [res |-> "ok", op |-> tab[tab[name].target].op, hops |-> 2]
    ELSE [res |-> "BrokenChain", hops |-> 2]

\* The walk of resolve: visited are the names already passed.
RECURSIVE Walk(_, _, _)
Walk(tab, name, visited) ==
    LET hops == Cardinality(visited) + 1
    IN  IF tab[name].kind = "None"
        THEN [res |-> IF visited = {} THEN "UnboundName" ELSE "BrokenChain",
              hops |-> hops - 1]
        ELSE IF tab[name].kind = "Builtin"
        THEN [res |-> "ok", op |-> tab[name].op, hops |-> hops]
        ELSE IF tab[name].target \in visited \cup {name}
        THEN [res |-> "AliasCycle", hops |-> hops]
        ELSE Walk(tab, tab[name].target, visited \cup {name})

\* resolve(name): the operation at the end of the alias chain, or the error.
resolve(tab, name) == Walk(tab, name, {})

\* register_builtin(name, operation, flags)
register_builtin(tab, name, op) ==
    IF IsImmortal(tab, name)
    THEN [tab |-> tab, res |-> "DuplicateBuiltin"]
    ELSE [tab |-> [tab EXCEPT ![name] = T(op, TRUE)], res |-> "ok"]

\* The record bind_user stores for target_or_operation.
UserRecord(t) == IF t \in ThingyNames THEN Alias(t) ELSE T(t, FALSE)

\* bind_user replacing immortal records like any other.
bind_user_over_immortal(tab, name, t) ==
    LET new == [tab EXCEPT ![name] = UserRecord(t)]
    IN  IF resolve(new, name).res = "AliasCycle"
        THEN [tab |-> tab, res |-> "AliasCycle"]
        ELSE [tab |-> new, res |-> "ok"]

\* bind_user without the check for a cycle.
bind_user_no_cycle_check(tab, name, t) ==
    IF IsImmortal(tab, name)
    THEN [tab |-> tab, res |-> "ImmortalConflict"]
    ELSE [tab |-> [tab EXCEPT ![name] = UserRecord(t)], res |-> "ok"]

\* bind_user(name, target_or_operation)
bind_user(tab, name, t) ==
    LET new == [tab EXCEPT ![name] = UserRecord(t)]
    IN  IF IsImmortal(tab, name)
        THEN [tab |-> tab, res |-> "ImmortalConflict"]
        ELSE IF resolve(new, name).res = "AliasCycle"
        THEN [tab |-> tab, res |-> "AliasCycle"]
        ELSE [tab |-> new, res |-> "ok"]

\* unbind_user(name)
unbind_user(tab, name) ==
    IF IsImmortal(tab, name)
    THEN [tab |-> tab, res |-> "ImmortalConflict"]
    ELSE [tab |-> [tab EXCEPT ![name] = NoThingy], res |-> "ok"]

editorVars ==
    <<pc, bufVars, histVars, searchVars, mainVars, termVars, stdin>>

\* A call on the table: the table becomes r.tab and r.res is returned.
Returned(r) ==
    /\ thingytab' = r.tab
    /\ reg_status' = r.res
    /\ UNCHANGED editorVars

RegisterBuiltin(name, op) == Returned(register_builtin(thingytab, name, op))

BindUser(name, t) == Returned(bind_user(thingytab, name, t))

UnbindUser(name) == Returned(unbind_user(thingytab, name))

Resolve(name) ==
    Returned([tab |-> thingytab, res |-> resolve(thingytab, name).res])

RegisterBuiltinCall ==
    \E name \in ThingyNames, op \in BuiltinOps : RegisterBuiltin(name, op)

BindUserCall ==
    \E name \in ThingyNames, t \in ThingyNames \cup UserOps : BindUser(name, t)

UnbindUserCall == \E name \in ThingyNames : UnbindUser(name)

ResolveCall == \E name \in ThingyNames : Resolve(name)

(***************************************************************************)
(* main.                                                                   *)
(***************************************************************************)
\* init_zle_subsystem(); enable_raw_mode();
MainStart ==
    /\ pc = "Start"
    /\ thingytab' = init_thingies
    /\ enable_raw_mode
    /\ pc' = "Main"
    /\ UNCHANGED <<bufVars, histVars, searchVars, mainVars, tty, stdin,
                   reg_status>>

\* readline_zle entered without clearing the line of the previous read.
ReadlineEnterKeepsLine ==
    /\ pc = "Main"
    /\ SetBuf(sizeline(Buf, InitLineSz))
    /\ history_pos' = history_count
    /\ saved_line' = NULL
    /\ pc' = "ReadingLine"
    /\ UNCHANGED <<history, searchVars, mainVars, termVars, regVars, stdin>>

\* readline_zle is called: the buffer and the history position are reset.
ReadlineEnter ==
    /\ pc = "Main"
    /\ SetBuf([sizeline(Buf, InitLineSz) EXCEPT !.zlell = 0, !.zlecs = 0,
                                                !.zleline = <<>>])
    /\ history_pos' = history_count
    /\ saved_line' = NULL
    /\ pc' = "ReadingLine"
    /\ UNCHANGED <<history, searchVars, mainVars, termVars, regVars, stdin>>

\* main without the history_add call.
MainAcceptNoHistory ==
    /\ pc = "Done"
    /\ disable_raw_mode
    /\ IF strlen(line) > 0
       THEN pc' = "Parse"
       ELSE pc' = "EndIter"
    /\ UNCHANGED <<bufVars, histVars, searchVars, mainVars,
                   atexit_registered, tty, stdin, regVars>>

\* main without the strlen(line) > 0 test.
MainAcceptAlways ==
    /\ pc = "Done"
    /\ disable_raw_mode
    /\ history' = history_add(history, line)
    /\ events' = Append(events, [op |-> "history_add", arg |-> line])
    /\ pc' = "Parse"
    /\ UNCHANGED <<bufVars, history_pos, saved_line, searchVars, line,
                   atexit_registered, tty, stdin, regVars>>

\* A line came back: leave raw mode and, unless the line is empty, add it to
\* the history.
MainAccept ==
    /\ pc = "Done"
    /\ disable_raw_mode
    /\ IF strlen(line) > 0
       THEN /\ history' = history_add(history, line)
            /\ events' = Append(events, [op |-> "history_add", arg |-> line])
            /\ pc' = "Parse"
       ELSE /\ UNCHANGED <<history, events>>
            /\ pc' = "EndIter"
    /\ UNCHANGED <<bufVars, history_pos, saved_line, searchVars, line,
                   atexit_registered, tty, stdin, regVars>>

\* The line, newline-terminated, is pushed to the parser and parsed.
MainParse ==
    /\ pc = "Parse"
    /\ events' = Append(events, [op |-> "submit", arg |-> Append(line, LF)])
    /\ pc' = "EndIter"
    /\ UNCHANGED <<bufVars, histVars, searchVars, line, termVars, regVars, stdin>>

\* zsfree(line); enable_raw_mode(); and around the loop.
MainEndIter ==
    /\ pc = "EndIter"
    /\ line' = NULL
    /\ events' = <<>>
    /\ enable_raw_mode
    /\ pc' = "Main"
    /\ UNCHANGED <<bufVars, histVars, searchVars, tty, stdin, regVars>>

\* main adding the unfinished line to the history on the way out.
MainExitSavesLine ==
    /\ pc = "Cancelled"
    /\ disable_raw_mode
    /\ history' = history_add(history, zlelineasstring(Buf))
    /\ pc' = "Exited"
    /\ UNCHANGED <<bufVars, history_pos, saved_line, searchVars, mainVars,
                   atexit_registered, tty, stdin, regVars>>

\* main leaving the loop without its last disable_raw_mode call.
MainExitNoRestore ==
    /\ pc = "Cancelled"
    /\ pc' = "Exited"
    /\ UNCHANGED <<bufVars, histVars, searchVars, mainVars, termVars, regVars, stdin>>

\* readline_zle returned NULL: the loop ends, the terminal is restored.
MainExit ==
    /\ pc = "Cancelled"
    /\ disable_raw_mode
    /\ pc' = "Exited"
    /\ UNCHANGED <<bufVars, histVars, searchVars, mainVars, atexit_registered,
                   tty, stdin, regVars>>

(***************************************************************************)
(* The specifications.                                                     *)
(***************************************************************************)
InitEditor ==
    /\ zleline = <<>>
    /\ zlecs = 0
    /\ zlell = 0
    /\ linesz = 0
    /\ history = <<>>
    /\ history_pos = 0
    /\ saved_line = NULL
    /\ search_buf = <<>>
    /\ search_pos = 0
    /\ found_pos = -1
    /\ line = NULL
    /\ events = <<>>
    /\ raw_mode = 0
    /\ atexit_registered = 0

InitProgram ==
    /\ pc = "Start"
    /\ InitEditor
    /\ tty \in BOOLEAN
    /\ thingytab = [n \in ThingyNames |-> NoThingy]
    /\ reg_status = "ok"

\* An interactive session: any key may come.
Init == InitProgram /\ stdin = Terminal

Next ==
    \/ MainStart
    \/ ReadlineEnter
    \/ RlEOF
    \/ AcceptLine
    \/ Interrupt
    \/ DeleteCharOrEOF
    \/ BeginningOfLine
    \/ EndOfLine
    \/ KillLine
    \/ ReverseSearchKey
    \/ KillWholeLine
    \/ BackwardDeleteChar
    \/ EscapeKey
    \/ DefaultKey
    \/ EscSecond
    \/ UpHistory
    \/ DownHistory
    \/ ForwardChar
    \/ BackwardChar
    \/ HomeKey
    \/ EndKey
    \/ DeleteKeyStart
    \/ CsiOther
    \/ DeleteKey
    \/ RsEOF
    \/ RsAccept
    \/ RsCancel
    \/ RsSearchMore
    \/ RsBackspace
    \/ RsChar
    \/ RsOther
    \/ MainAccept
    \/ MainParse
    \/ MainEndIter
    \/ MainExit

Spec == Init /\ [][Next]_vars

(***************************************************************************)
(* Scripted sessions: stdin is a finite byte stream (a pipe), read to its  *)
(* end.                                                                    *)
(***************************************************************************)
KeyLeft == <<ESC, 91, 68>>
KeyRight == <<ESC, 91, 67>>
KeyUp == <<ESC, 91, 65>>
KeyDown == <<ESC, 91, 66>>
KeyHome == <<ESC, 91, 72>>
KeyEnd == <<ESC, 91, 70>>
KeyDelete == <<ESC, 91, 51, 126>>

\* "echo hi"
EchoHi == <<101, 99, 104, 111, 32, 104, 105>>
\* "echo hXi"
EchoHXi == <<101, 99, 104, 111, 32, 104, 88, 105>>
\* "echo Xhi"
EchoXhi == <<101, 99, 104, 111, 32, 88, 104, 105>>

\* "echo hi", Left, Left, "X", Enter.
ScriptEndToEnd == EchoHi \o KeyLeft \o KeyLeft \o <<88, CR>>

\* "a", "b", "b" accepted in sequence.
ScriptHistory == <<97, CR, 98, CR, 98, CR>>

\* Every key of the editor once, ending with Ctrl+C.
ScriptTour ==
    <<97, 98, CR, 98, LF>> \o KeyUp \o KeyUp \o KeyDown \o KeyDown
    \o <<97, 98, 99, CtrlA>> \o KeyRight \o <<CtrlK, 120, CtrlE>> \o KeyLeft
    \o KeyHome \o KeyDelete \o KeyEnd \o <<DEL, CtrlH, 121, 122, CtrlU>>
    \o <<97, 98, CtrlA, CtrlD, ESC, 79, ESC, 91, 90, 2, 200>>
    \o <<CtrlR, 98, CtrlR, 2, DEL, 97, CR, CtrlR, 122, CtrlG, CR>>
    \o <<CtrlC>>

\* Up-arrow with two lines in the history, then Ctrl+D on the emptied line.
ScriptUp == <<97, CR, 98, CR, 99>> \o KeyUp \o KeyUp \o KeyUp \o <<CtrlU, CtrlD>>

\* The input ends inside reverse search, after ESC [ 3, after ESC [, after ESC.
ScriptEofSearch == <<97, CR, CtrlR, 97>>
ScriptEofEsc3 == <<97, ESC, 91, 51>>
ScriptEofCsi == <<97, ESC, 91>>
ScriptEofEsc == <<97, ESC>>

\* Ctrl+C typed inside reverse search, then Enter twice.
ScriptSearchInterrupt == <<97, CR, CtrlR, 97, CtrlC, CR, CR>>

\* "a", then ESC followed by a byte that starts no escape sequence, Enter.
ScriptEscLetter == <<97, ESC, 98, CR>>

\* Up-arrow pressed inside reverse search, then Enter.
ScriptSearchArrow == <<97, CR, CtrlR>> \o KeyUp \o <<CR>>

Scripts ==
    {ScriptEndToEnd, ScriptHistory, ScriptTour, ScriptUp, ScriptEofSearch,
     ScriptEofEsc3, ScriptEofCsi, ScriptEofEsc, ScriptSearchInterrupt,
     ScriptEscLetter, ScriptSearchArrow}

InitScript == InitProgram /\ stdin \in {Pipe(s) : s \in Scripts}

SpecScript == InitScript /\ [][Next]_vars

\* Every finite key stream, up to MaxStream bytes of StreamKeys, followed by
\* end of input.  main is one thread that runs whenever it can take a step:
\* getchar() on a finite stream returns a byte or EOF at once.
MaxStream == 4

StreamKeys == {97, CR, ESC, 91, 51, 65, CtrlR, DEL}

Streams == UNION {[1..n -> StreamKeys] : n \in 0..MaxStream}

InitStream == InitProgram /\ stdin \in {Pipe(s) : s \in Scripts \cup Streams}

SpecStream == InitStream /\ [][Next]_vars /\ WF_vars(Next)

(***************************************************************************)
(* demo_line_buffer of zle_example.c: the calls it makes on the line       *)
(* buffer, in its order.  The arguments range over small sets that hold    *)
(* the demo's own; events records each call with its argument.             *)
(***************************************************************************)
DemoLineSz == 256

\* "echo hello world"
DemoLine == <<101, 99, 104, 111, 32, 104, 101, 108, 108, 111, 32, 119, 111, 114, 108, 100>>

\* " beautiful"
DemoInsertText == <<32, 98, 101, 97, 117, 116, 105, 102, 117, 108>>

DemoLines == {DemoLine, <<97, 98>>}
DemoInserts == {DemoInsertText, <<97>>}
DemoCounts == {6, 1}

\* setline(s, ZSL_COPY): the line becomes s; the cursor is kept within it.
setline(b, s) ==
    LET g == sizeline(b, Len(s))
    IN  [g EXCEPT !.zleline = s, !.zlell = Len(s), !.zlecs = Min(b.zlecs, Len(s))]

\* stringaszleline(instr, 0, &new_ll, ...): one unit per byte of instr.
stringaszleline(instr) == instr

\* ZS_memcpy(zleline + zlecs, src, n): n units stored from the cursor on.
ZS_memcpy(b, src, n) ==
    [b EXCEPT !.zleline = [i \in 1..Len(b.zleline) |->
                               IF b.zlecs < i /\ i <= b.zlecs + n
                               THEN src[i - b.zlecs] ELSE b.zleline[i]]]

DemoStep(from, to, op, arg) ==
    /\ pc = from
    /\ pc' = to
    /\ events' = Append(events, [op |-> op, arg |-> arg])
    /\ UNCHANGED <<histVars, searchVars, line, termVars, stdin, regVars>>

DemoSizeline ==
    /\ DemoStep("DemoStart", "DemoSetLine", "sizeline", <<DemoLineSz>>)
    /\ SetBuf([sizeline(Buf, DemoLineSz) EXCEPT !.zlell = 0, !.zlecs = 0])

DemoSetLine ==
    \E s \in DemoLines :
        /\ DemoStep("DemoSetLine", "DemoMove", "setline", s)
        /\ SetBuf(setline(Buf, s))

DemoMoveCursor ==
    \E p \in 0..zlell :
        /\ DemoStep("DemoMove", "DemoInsert", "zlecs", <<p>>)
        /\ SetBuf([Buf EXCEPT !.zlecs = p])

DemoInsert ==
    \E t \in DemoInserts :
        LET zle_insert == stringaszleline(t)
            new_ll == Len(zle_insert)
            g == ZS_memcpy(spaceinline(Buf, new_ll), zle_insert, new_ll)
        IN  /\ DemoStep("DemoInsert", "DemoSetCursor", "insert", t)
            /\ SetBuf([g EXCEPT !.zlecs = g.zlecs + new_ll])

DemoSetCursor ==
    \E p \in 0..zlell :
        /\ DemoStep("DemoSetCursor", "DemoDelete", "zlecs", <<p>>)
        /\ SetBuf([Buf EXCEPT !.zlecs = p])

DemoDelete ==
    \E n \in DemoCounts :
        /\ DemoStep("DemoDelete", "DemoDone", "foredel", <<n>>)
        /\ SetBuf(foredel(Buf, n))

InitDemo ==
    /\ pc = "DemoStart"
    /\ InitEditor
    /\ tty = TRUE
    /\ stdin = Terminal
    /\ thingytab = init_thingies
    /\ reg_status = "ok"

NextDemo ==
    \/ DemoSizeline
    \/ DemoSetLine
    \/ DemoMoveCursor
    \/ DemoInsert
    \/ DemoSetCursor
    \/ DemoDelete

SpecDemo == InitDemo /\ [][NextDemo]_vars

(***************************************************************************)
(* The table of thingies on its own: it is as init_thingies left it, the   *)
(* editor does not run, and register_builtin, bind_user, unbind_user and   *)
(* resolve are called in any order with any arguments.                     *)
(***************************************************************************)
InitRegistry ==
    /\ pc = "Start"
    /\ InitEditor
    /\ tty = TRUE
    /\ stdin = Terminal
    /\ thingytab = init_thingies
    /\ reg_status = "ok"

NextRegistry ==
    \/ RegisterBuiltinCall
    \/ BindUserCall
    \/ UnbindUserCall
    \/ ResolveCall

SpecRegistry == InitRegistry /\ [][NextRegistry]_vars

(***************************************************************************)
(* Properties.                                                             *)
(***************************************************************************)
Last(q) == q[Len(q)]

\* The calls of the given kind made for the current line.
Calls(op) == {i \in 1..Len(events) : events[i].op = op}

\* C1: after every operation of the read loop (insert, Backspace, Delete,
\* Ctrl+K, Ctrl+U, cursor keys, history Up/Down, reverse-search accept) the
\* line buffer satisfies 0 <= cursor <= length <= capacity.
C1_BufferInvariant ==
    /\ 0 <= zlecs
    /\ zlecs <= zlell
    /\ zlell <= linesz

\* A recalled or edited line with the cursor inside it, after the buffer grew.
C1_Witness ==
    /\ pc = "ReadingLine"
    /\ 0 < zlecs
    /\ zlecs < zlell
    /\ linesz > InitLineSz
    /\ history_pos < history_count

\* The session fed "echo hi", Left, Left, "X", Enter accepts the line r:
\* the loop reaches Done with r, main submits r, the history ends as <<r>>.
EndToEnd(r) ==
    stdin.buf = ScriptEndToEnd =>
        /\ pc = "Done" => line = r
        /\ pc = "EndIter" =>
              \E i \in Calls("submit") : events[i].arg = r \o <<LF>>
        /\ pc = "Exited" => history = <<r>>

\* C2 as stated: from an empty buffer the keystrokes "echo hi", Left, Left,
\* "X", Enter make the loop reach Done with the submitted line "echo hXi".
C2_EndToEnd_AsStated == EndToEnd(EchoHXi)

\* C2, amended: from an empty buffer the keystrokes "echo hi", Left, Left,
\* "X", Enter make the loop reach Done with the submitted line "echo Xhi":
\* two Left arrows from the end of "echo hi" put the cursor before the "h".
C2_EndToEnd == EndToEnd(EchoXhi)

C2_Witness ==
    /\ stdin.buf = ScriptEndToEnd
    /\ Unread = <<>>
    /\ pc = "Done"
    /\ line = EchoXhi

\* C3: an accepted line becomes the last history entry, the entries before
\* it kept in order (less the oldest when the list was full), unless the line
\* is empty or equal to the last entry: then the history is left unchanged.
C3_HistoryAppend ==
    [][pc = "Done" =>
          IF line = <<>> \/ (history_count > 0 /\ Last(history) = line)
          THEN history' = history
          ELSE /\ Len(history') > 0
               /\ Last(history') = line
               /\ SubSeq(history', 1, Len(history') - 1)
                     \in {history, SubSeq(history, 2, Len(history))}]_vars

\* The line just accepted equals the only entry, which was there before the
\* line was read: the duplicate was not added.
C3_Witness ==
    /\ pc = "Parse"
    /\ history_pos = 1
    /\ history = <<line>>

\* The most recent entry of h containing buf, as a C index, or -1.
MostRecentMatch(h, buf) ==
    LET M == {i \in 0..(Len(h) - 1) : strstr(h[i + 1], buf)}
    IN  IF M = {} THEN -1 ELSE CHOOSE i \in M : \A j \in M : j <= i

\* C4: in reverse search, with a pattern typed and the scan still starting at
\* the newest entry (no Ctrl+R stepped to an older match), the match shown is
\* the most recent history entry containing the pattern.
C4_MostRecentMatch ==
    (pc = "ReverseSearch" /\ search_len > 0 /\ search_pos = history_count)
        => found_pos = MostRecentMatch(history, search_buf)

\* Two entries contain the pattern and the newer one is shown.
C4_Witness ==
    /\ pc = "ReverseSearch"
    /\ search_len > 0
    /\ search_pos = history_count
    /\ history_count = 2
    /\ strstr(history[1], search_buf)
    /\ strstr(history[2], search_buf)
    /\ found_pos = 1

\* C5: Enter in reverse search while a match is shown replaces the whole line
\* by the matched entry, with cursor = length = the entry's length, and the
\* loop is back in ReadingLine: nothing is returned, submitted or added to
\* the history by this key.
C5_AcceptInSearch ==
    [][(RsAccept /\ found_pos >= 0) =>
          /\ zleline' = history[found_pos + 1]
          /\ zlell' = Len(history[found_pos + 1])
          /\ zlecs' = zlell'
          /\ pc' = "ReadingLine"
          /\ line' = NULL
          /\ UNCHANGED <<history, events>>]_vars

\* A match is shown that differs from the line being edited.
C5_Witness ==
    /\ pc = "ReverseSearch"
    /\ found_pos >= 0
    /\ zlell > 0
    /\ zleline # history[found_pos + 1]
    /\ ENABLED RsAccept

\* C6: no key of reverse search other than accept touches the line, and
\* cancel (Ctrl+G or Escape) returns to ReadingLine: after any sequence of
\* search keys, cancel leaves (text, length, cursor) as they were when the
\* search was entered.
C6_CancelRestores ==
    [][pc = "ReverseSearch" =>
          /\ (pc' = "ReverseSearch" \/ RsCancel)
                => UNCHANGED <<zleline, zlell, zlecs>>
          /\ RsCancel => pc' = "ReadingLine"]_vars

\* A search that stepped to an older match, over a line with the cursor
\* inside it.
C6_Witness ==
    /\ pc = "ReverseSearch"
    /\ found_pos >= 0
    /\ search_pos < history_count
    /\ zlecs < zlell
    /\ zleline # history[found_pos + 1]
    /\ ENABLED RsCancel

\* What the Up binding does to the editor.
UpEffect ==
    /\ history' = history
    /\ IF history_pos > 0
       THEN /\ history_pos' = history_pos - 1
            /\ zleline' = history[history_pos]
            /\ zlell' = Len(history[history_pos])
            /\ zlecs' = zlell'
       ELSE UNCHANGED <<history_pos, zleline, zlell, zlecs>>

\* C7: of the bytes ESC [ A read in ReadingLine, ESC and "[" only move the
\* loop on (nothing is dispatched or inserted for them) and "A" dispatches
\* the Up binding, once, with the loop back in ReadingLine.
C7_EscapeSequenceUp ==
    [][/\ EscapeKey =>
             pc' = "Esc" /\ UNCHANGED <<bufVars, histVars, mainVars>>
       /\ (pc = "Esc" /\ pc' = "EscBracket") =>
             UNCHANGED <<bufVars, histVars, mainVars>>
       /\ UpHistory =>
             pc' = "ReadingLine" /\ UpEffect /\ UNCHANGED mainVars]_vars

\* Up has been dispatched over a non-empty line: an older entry is shown.
C7_Witness ==
    /\ pc = "ReadingLine"
    /\ history_pos < history_count
    /\ saved_line # NULL
    /\ saved_line # <<>>
    /\ zleline = history[history_pos + 1]

\* C8 as stated: for every accepted line the submit to the parser comes
\* first and the history append after it.
C8_SubmitBeforeAppend_AsStated ==
    \A i \in Calls("history_add") : \E j \in Calls("submit") : j < i

\* C8, amended: for every accepted non-empty line the history append comes
\* first and the submit to the parser after it: when the line is submitted
\* it already is the last history entry.
C8_AppendBeforeSubmit ==
    \A i \in Calls("submit") :
        /\ \E j \in Calls("history_add") : j < i /\ events[j].arg = line
        /\ history_count > 0
        /\ Last(history) = line

\* Both calls have been made for a line.
C8_Witness ==
    /\ pc = "EndIter"
    /\ Calls("submit") # {}
    /\ Calls("history_add") # {}

\* The line was handed to the parser exactly n times.
SubmittedTimes(n) ==
    /\ Cardinality(Calls("submit")) = n
    /\ \A i \in Calls("submit") : events[i].arg = line \o <<LF>>

C10_CancelDiscards ==
    [][/\ (Interrupt \/ RlEOF \/ (DeleteCharOrEOF /\ zlell = 0))
             => pc' = "Cancelled"
       /\ (pc' = "Cancelled" \/ pc = "Cancelled")
             => history' = history /\ events = <<>> /\ events' = <<>>]_vars

\* The session ended over a non-empty line that is not in the history.
C10_Witness ==
    /\ pc = "Exited"
    /\ zlell > 0
    /\ \A i \in 1..history_count : history[i] # zlelineasstring(Buf)

\* C11: on every path by which the session ends the terminal is back in its
\* original mode: raw_mode is 0 once main has left its loop, and as long as
\* raw mode is on, the atexit handler that turns it off is registered.
C11_RawModeRestored ==
    /\ pc = "Exited" => raw_mode = 0
    /\ raw_mode = 1 => atexit_registered = 1

\* The session ended at a terminal where enable_raw_mode had succeeded.
C11_Witness ==
    /\ pc = "Exited"
    /\ tty
    /\ atexit_registered = 1
    /\ raw_mode = 0

\* C12: the history never holds more than HISTORY_MAX entries, and a line
\* that main appends to a full history evicts exactly the oldest entry: the
\* other entries move up one place in the same order and the line is last.
C12_BoundedFifo ==
    /\ [](history_count <= HISTORY_MAX)
    /\ [][(MainAccept /\ history' # history) =>
              history' = Append(IF history_count = HISTORY_MAX
                                THEN SubSeq(history, 2, history_count)
                                ELSE history, line)]_vars

\* A new line comes back to main while the history is full.
C12_Witness ==
    /\ pc = "Done"
    /\ history_count = HISTORY_MAX
    /\ line # <<>>
    /\ line # Last(history)
    /\ ENABLED MainAccept

\* The fragments over the letters of the model.
Fragments == UNION {[1..n -> Letters] : n \in 1..MaxFrag}

\* The text, length and cursor of b are those of the current line.
SameLine(b) ==
    /\ zlelineasstring(b) = zlelineasstring(Buf)
    /\ b.zlell = zlell
    /\ b.zlecs = zlecs

\* C13: from every buffer state the read loop reaches, inserting a fragment
\* at the cursor and deleting backward as many units restores the text, the
\* length and the cursor; so does a printable key followed by Backspace.
C13_RoundTrip ==
    pc = "ReadingLine" =>
        /\ \A s \in Fragments : SameLine(backdel(insert(Buf, s), Len(s)))
        /\ \A c \in Letters :
              LET t == insert_char(Buf, c)
              IN  SameLine(IF t.zlecs > 0 THEN backdel(t, 1) ELSE t)

\* The cursor is inside a line that fills its allocation: the insertion
\* grows the allocation, and the deletion gives the line back, not the size.
C13_Witness ==
    /\ pc = "ReadingLine"
    /\ 0 < zlecs
    /\ zlecs < zlell
    /\ zlell = linesz
    /\ backdel(insert(Buf, <<97, 98>>), 2).linesz > linesz
    /\ SameLine(backdel(insert(Buf, <<97, 98>>), 2))

\* The key left the line as it was and the loop in ReadingLine.
NoOp ==
    /\ UNCHANGED <<zleline, zlell, zlecs>>
    /\ pc' = "ReadingLine"

\* C14: a key that cannot apply leaves text, length and cursor unchanged and
\* the loop in ReadingLine: Backspace at cursor 0, Ctrl+D on a non-empty line
\* or ESC [ 3 ~ with the cursor at the end, Left at 0, Right at the end,
\* Ctrl+K at the end, Ctrl+U on an empty line, Up at the oldest entry, Down
\* at the newest position.
C14_NoOpKeys ==
    [][/\ (BackwardDeleteChar /\ zlecs = 0) => NoOp
       /\ (DeleteCharOrEOF /\ zlell > 0 /\ zlecs = zlell) => NoOp
       /\ \A c \in Pending \ {EOF} :
             (pc = "Esc3" /\ DeleteKeyRead(c) /\ zlecs = zlell) => NoOp
       /\ (BackwardChar /\ zlecs = 0) => NoOp
       /\ (ForwardChar /\ zlecs = zlell) => NoOp
       /\ (KillLine /\ zlecs = zlell) => NoOp
       /\ (KillWholeLine /\ zlell = 0) => NoOp
       /\ (UpHistory /\ history_pos = 0) => NoOp /\ UNCHANGED histVars
       /\ (DownHistory /\ history_pos = history_count) =>
             NoOp /\ UNCHANGED histVars]_vars

\* After ESC [, over a recalled line with the cursor at its end and the
\* oldest entry shown: neither Up nor Right can apply.
C14_Witness ==
    /\ pc = "EscBracket"
    /\ history_count > 0
    /\ history_pos = 0
    /\ zlell > 0
    /\ zlecs = zlell
    /\ ENABLED UpHistory
    /\ ENABLED ForwardChar

\* C15: Ctrl+C read while the loop is in ReverseSearch makes the loop leave
\* ReverseSearch; the interrupt is not ignored.
C15_InterruptLeavesSearch ==
    [][(pc = "ReverseSearch" /\ Pending = {CtrlC} /\ stdin' # stdin)
          => pc' # "ReverseSearch"]_vars

\* Ctrl+C was the last byte read and the loop still is in ReverseSearch, the
\* pattern and the match as they were.
C15_Witness ==
    /\ stdin.buf = ScriptSearchInterrupt
    /\ stdin.pos = 5
    /\ pc = "ReverseSearch"
    /\ search_buf = <<97>>
    /\ found_pos = 0

\* C16: a byte read after ESC that cannot extend any bound sequence is
\* dispatched as its own key, not discarded: a printable byte other than "["
\* is inserted at the cursor.
C16_NoLostInput ==
    [][\A c \in Pending :
          (pc = "Esc" /\ IsPrintable(c) /\ c # 91 /\ stdin' # stdin)
              => /\ zlell' = zlell + 1
                 /\ zlelineasstring(Buf)' = zlelineasstring(insert_char(Buf, c))]_vars

\* "a", ESC, "b", Enter has been read and the line accepted is "a".
C16_Witness ==
    /\ stdin.buf = ScriptEscLetter
    /\ pc = "Done"
    /\ line = <<97>>

\* C20: every call of readline_zle starts from an empty buffer, length and
\* cursor 0, whatever the previous line was and however it ended, with the
\* history position at the newest place and no saved in-progress line.
C20_ReadStartsEmpty ==
    [][ReadlineEnter =>
          /\ zlell' = 0
          /\ zlecs' = 0
          /\ zlelineasstring(Buf)' = <<>>
          /\ history_pos' = history_count'
          /\ saved_line' = NULL
          /\ pc' = "ReadingLine"]_vars

\* A new read is about to start after a line recalled from the history was
\* accepted: the buffer still holds it, a line is saved, the position is old.
C20_Witness ==
    /\ pc = "Main"
    /\ zlell > 0
    /\ zlecs > 0
    /\ saved_line # NULL
    /\ history_pos < history_count
    /\ ENABLED ReadlineEnter

\* C17: a bind_user or unbind_user call naming an immortal record fails with
\* ImmortalConflict and changes nothing, no call changes an immortal record,
\* so the immortal record of every builtin exists and resolves to its
\* original operation; binding another, non-immortal name as an alias of it
\* succeeds and that name resolves to the same operation.
C17_ImmortalKept ==
    /\ [](\A n \in DotNames :
             /\ thingytab[n] = T(w(n), TRUE)
             /\ resolve(thingytab, n) = [res |-> "ok", op |-> w(n), hops |-> 1])
    /\ [][\A n \in ThingyNames : IsImmortal(thingytab, n) =>
             /\ thingytab'[n] = thingytab[n]
             /\ \A t \in ThingyNames \cup UserOps : BindUser(n, t) =>
                   reg_status' = "ImmortalConflict" /\ thingytab' = thingytab
             /\ UnbindUser(n) =>
                   reg_status' = "ImmortalConflict" /\ thingytab' = thingytab
             /\ \A m \in ThingyNames :
                   (~IsImmortal(thingytab, m) /\ BindUser(m, n)) =>
                       /\ reg_status' = "ok"
                       /\ thingytab'[m] = Alias(n)
                       /\ resolve(thingytab', m).res = "ok"
                       /\ resolve(thingytab', m).op = thingytab[n].op]_vars

\* A call was refused with ImmortalConflict while a user name is an alias of
\* the immortal .accept-line and resolves to its operation.
C17_Witness ==
    /\ reg_status = "ImmortalConflict"
    /\ thingytab["a"] = Alias(".accept-line")
    /\ resolve(thingytab, "a").res = "ok"
    /\ resolve(thingytab, "a").op = w("accept-line")
    /\ thingytab[".accept-line"] = T(w("accept-line"), TRUE)

\* The targets of the alias records of the names in S.
AliasTargets(tab, S) ==
    {tab[m].target : m \in {x \in S : tab[x].kind = "Alias"}}

RECURSIVE ReachIn(_, _, _)
ReachIn(tab, S, k) ==
    IF k = 0 THEN S ELSE ReachIn(tab, S \cup AliasTargets(tab, S), k - 1)

\* The names reached from name by one alias edge or more.
Reach(tab, name) ==
    ReachIn(tab, AliasTargets(tab, {name}), Cardinality(ThingyNames))

Acyclic(tab) == \A n \in ThingyNames : n \notin Reach(tab, n)

\* C18: after any sequence of register_builtin, bind_user and unbind_user
\* calls the alias graph is acyclic and resolve returns AliasCycle for no
\* name; a bind_user that would close a cycle, a self-alias included, is
\* refused at the call and leaves the table as it was.
C18_AliasGraphAcyclic ==
    /\ [](/\ Acyclic(thingytab)
          /\ \A n \in ThingyNames : resolve(thingytab, n).res # "AliasCycle")
    /\ [][\A n \in ThingyNames, t \in ThingyNames :
             (BindUser(n, t) /\ (t = n \/ n \in Reach(thingytab, t))) =>
                 /\ reg_status' \in {"AliasCycle", "ImmortalConflict"}
                 /\ thingytab' = thingytab]_vars

\* With a -> b -> c in the table, a bind_user was refused for the cycle it
\* would have closed.
C18_Witness ==
    /\ reg_status = "AliasCycle"
    /\ thingytab["a"] = Alias("b")
    /\ thingytab["b"] = Alias("c")

\* C19: for a chain a -> b -> c -> Builtin(X), resolve(a) returns X after 3
\* hops; in general a resolve that succeeds returns the operation of the
\* builtin the chain ends in, after as many hops as the chain has names.
C19_ResolveChain ==
    /\ \A a, b, c \in ThingyNames :
          (/\ thingytab[a] = Alias(b)
           /\ thingytab[b] = Alias(c)
           /\ thingytab[c].kind = "Builtin")
              => resolve(thingytab, a) =
                     [res |-> "ok", op |-> thingytab[c].op, hops |-> 3]
    /\ \A n \in ThingyNames :
          LET chain == {n} \cup Reach(thingytab, n)
          IN  resolve(thingytab, n).res = "ok" =>
                  /\ resolve(thingytab, n).hops = Cardinality(chain)
                  /\ \E e \in chain :
                        /\ thingytab[e].kind = "Builtin"
                        /\ resolve(thingytab, n).op = thingytab[e].op

\* The chain a -> b -> c -> Builtin(user-widget) is in the table.
C19_Witness ==
    /\ thingytab["a"] = Alias("b")
    /\ thingytab["b"] = Alias("c")
    /\ thingytab["c"] = T(<<"user-widget">>, FALSE)
    /\ resolve(thingytab, "a").res = "ok"
    /\ resolve(thingytab, "a").op = <<"user-widget">>
    /\ resolve(thingytab, "a").hops = 3

Dropped ==
    /\ UNCHANGED <<zleline, zlell, zlecs, history_pos>>
    /\ pc' = "ReadingLine"

MostRecentMatchBelow(h, buf, pos) ==
    LET M == {i \in 0..(pos - 1) : strstr(h[i + 1], buf)}
    IN  IF M = {} THEN -1 ELSE CHOOSE i \in M : \A j \in M : j <= i

\* A key of the search changed the pattern.
PatternChanged ==
    /\ pc = "ReverseSearch"
    /\ pc' = "ReverseSearch"
    /\ search_buf' # search_buf

\* C23 as stated: whenever the pattern changes in ReverseSearch, by adding
\* a character or by deleting one, the match shown is the most recent
\* history entry containing the new pattern, even after Ctrl+R stepped to an
\* older match.
C23_MostRecentAlways_AsStated ==
    [][PatternChanged =>
          found_pos' = MostRecentMatch(history, search_buf')]_vars

\* C23, amended: deleting a character restarts the scan, so the match shown
\* is the most recent entry containing the new pattern; adding a character
\* keeps the scan start, so the match shown is the most recent entry older
\* than search_pos containing the new pattern, which is the most recent of
\* all only while no Ctrl+R has stepped to an older match.
C23_MostRecentFromScanStart ==
    [][PatternChanged =>
          IF Len(search_buf') < Len(search_buf)
          THEN /\ search_pos' = history_count
               /\ found_pos' = MostRecentMatch(history, search_buf')
          ELSE /\ search_pos' = search_pos
               /\ found_pos' =
                      MostRecentMatchBelow(history, search_buf', search_pos)
               /\ search_pos = history_count =>
                      found_pos' = MostRecentMatch(history, search_buf')]_vars

\* The scan start is at an older entry and no match is shown for a two
\* character pattern that the newest entry contains.
C23_Witness ==
    /\ pc = "ReverseSearch"
    /\ search_len = 2
    /\ search_pos < history_count
    /\ found_pos = -1
    /\ MostRecentMatch(history, search_buf) = history_count - 1

\* C24: of an arrow-key sequence ESC [ A received in ReverseSearch, neither
\* "[" nor the final letter is ever inserted into the line as a literal
\* character, in ReverseSearch or back in ReadingLine.
C24_ArrowInSearchNotInserted ==
    stdin.buf = ScriptSearchArrow =>
        \A i \in 1..zlell : zleline[i] \notin {91, 65}

\* Ctrl+R, ESC [ A, Enter has been read on an empty line and the line
\* accepted is "[A".
C24_Witness ==
    /\ stdin.buf = ScriptSearchArrow
    /\ pc = "Done"
    /\ line = <<91, 65>>

\* The calls of demo_line_buffer with its own arguments, up to the cursor
\* being set to 16 and up to the deletion.
DemoCallsBeforeDelete ==
    << [op |-> "sizeline", arg |-> <<DemoLineSz>>],
       [op |-> "setline", arg |-> DemoLine],
       [op |-> "zlecs", arg |-> <<5>>],
       [op |-> "insert", arg |-> DemoInsertText],
       [op |-> "zlecs", arg |-> <<16>>] >>

DemoCalls == Append(DemoCallsBeforeDelete, [op |-> "foredel", arg |-> <<6>>])

\* "echo  beautifulworld"
DemoClaimed == <<101, 99, 104, 111, 32>> \o DemoInsertText \o <<119, 111, 114, 108, 100>>

\* "echo  beautifulhorld"
DemoActual == <<101, 99, 104, 111, 32>> \o DemoInsertText \o <<104, 111, 114, 108, 100>>

\* C25: in the line-buffer demo (line "echo hello world", cursor 5, insert
\* " beautiful", cursor 16) position 16 is the "h" of "hello", and deleting
\* 6 units forward leaves "echo  beautifulworld", cursor 16, length 20.
C25_DemoDeletesHello ==
    /\ (pc = "DemoDelete" /\ events = DemoCallsBeforeDelete) => zleline[zlecs + 1] = 104
    /\ (pc = "DemoDone" /\ events = DemoCalls) =>
           /\ zlelineasstring(Buf) = DemoClaimed
           /\ zlecs = 16
           /\ zlell = 20

\* The demo has run with its own arguments and left "echo  beautifulhorld".
C25_Witness ==
    /\ pc = "DemoDone"
    /\ events = DemoCalls
    /\ zlelineasstring(Buf) = DemoActual
    /\ zlecs = 16
    /\ zlell = 20

\* The positions of the read loop: a key is being waited for.
ReadPcs == {"ReadingLine", "Esc", "EscBracket", "Esc3", "ReverseSearch"}

\* C26: no key fed to the read loop changes the retained history (history
\* navigation, editing a recalled entry, reverse search accepted or
\* cancelled); the history changes only when main appends an accepted line,
\* the oldest entry being evicted when the list is full.
C26_KeysKeepHistory ==
    [][/\ pc \in ReadPcs => history' = history
       /\ history' # history =>
              /\ pc = "Done"
              /\ line # NULL
              /\ history' = Append(IF history_count >= HISTORY_MAX
                                   THEN SubSeq(history, 2, history_count)
                                   ELSE history, line)]_vars

\* A recalled entry of a full history has been edited in the buffer.
C26_Witness ==
    /\ pc = "ReadingLine"
    /\ history_count = HISTORY_MAX
    /\ 0 < history_pos
    /\ history_pos < history_count
    /\ zlelineasstring(Buf) # history[history_pos + 1]

\* C27: during a read, 0 <= history_pos <= history_count after every key,
\* and whenever history_pos < history_count the line in progress has been
\* saved (saved_line is set), so Down back to the newest position never
\* restores from a missing line.
C27_HistoryPosInRange ==
    pc \in ReadPcs =>
        /\ 0 <= history_pos
        /\ history_pos <= history_count
        /\ history_pos < history_count => saved_line # NULL

\* At the oldest entry of a full history, with a non-empty line saved.
C27_Witness ==
    /\ pc = "ReadingLine"
    /\ history_count = HISTORY_MAX
    /\ history_pos = 0
    /\ saved_line # NULL
    /\ saved_line # <<>>

\* A recalled entry is in the buffer: the read is away from the newest
\* history position.
Browsing == pc \in ReadPcs /\ history_pos < history_count

\* C28: from the newest history position with text T in progress, Up k
\* times (1 <= k <= history_count) and then Down k times restores the text
\* T with the cursor at end of line, whatever edits were made to recalled
\* entries in between.  Step by step: Up leaving the newest position saves
\* T; Up and Down move the position by one and nothing else in the read
\* moves it; the saved T is kept while a recalled entry is shown; the Down
\* that reaches the newest position again loads the saved T, cursor at end.
C28_UpDownRoundTrip ==
    [][/\ (UpHistory /\ history_pos > 0) =>
              /\ history_pos' = history_pos - 1
              /\ history_pos = history_count => saved_line' = zlelineasstring(Buf)
       /\ (DownHistory /\ history_pos < history_count) =>
              history_pos' = history_pos + 1
       /\ (pc \in ReadPcs /\ pc' \in ReadPcs /\ ~UpHistory /\ ~DownHistory) =>
              history_pos' = history_pos
       /\ Browsing => saved_line' = saved_line
       /\ (Browsing /\ pc' \in ReadPcs /\ history_pos' = history_count) =>
              /\ DownHistory
              /\ zlelineasstring(Buf)' = saved_line
              /\ zlecs' = Len(saved_line)
              /\ zlell' = Len(saved_line)]_vars

\* Back at the newest position of a full history after Up and Down, with
\* the text in progress restored: it is no history entry.
C28_Witness ==
    /\ pc = "ReadingLine"
    /\ history_count = HISTORY_MAX
    /\ history_pos = history_count
    /\ saved_line # NULL
    /\ Len(saved_line) = MaxLen
    /\ zlelineasstring(Buf) = saved_line
    /\ zlecs = zlell
    /\ \A i \in 1..history_count : history[i] # saved_line

\* C29: after any sequence of accepted lines, evictions included, no
\* retained history entry is empty and no two adjacent entries are equal.
C29_NoEmptyNoAdjacentDup ==
    /\ \A i \in 1..history_count : history[i] # <<>>
    /\ \A i \in 1..(history_count - 1) : history[i] # history[i + 1]

\* A line equal to the newest entry of a full history has just been passed
\* to history_add.
C29_Witness ==
    /\ pc = "Parse"
    /\ history_count = HISTORY_MAX
    /\ line = history[history_count]
    /\ Len(history[1]) = MaxLen
    /\ \E i \in Calls("history_add") : events[i].arg = line

\* C30: Enter in ReverseSearch when no history entry matches the pattern
\* (an empty history included) leaves the text, length and cursor of the
\* line buffer unchanged and returns to ReadingLine.
C30_AcceptWithoutMatch ==
    [][(RsAccept /\ found_pos < 0) =>
           /\ UNCHANGED <<zleline, zlell, zlecs>>
           /\ pc' = "ReadingLine"]_vars

\* A pattern that no entry of the history contains, over a line with the
\* cursor inside it; Enter can be pressed.
C30_Witness ==
    /\ pc = "ReverseSearch"
    /\ history_count > 0
    /\ search_len > 0
    /\ found_pos = -1
    /\ MostRecentMatch(history, search_buf) = -1
    /\ 0 < zlecs
    /\ zlecs < zlell
    /\ ENABLED RsAccept

\* C31: the read loop terminates on every finite input.  End of input in
\* any state of the loop (ReadingLine, after ESC, after ESC [, after
\* ESC [ 3, inside ReverseSearch) leads to Cancelled, so every finite key
\* stream followed by end of input eventually reaches Done or Cancelled
\* and never stays in a nested mode.
C31_ReadTerminates ==
    /\ [][(pc \in ReadPcs /\ Unread = <<>>) => pc' = "Cancelled"]_vars
    /\ (pc \in ReadPcs) ~> (pc \in {"Done", "Cancelled"})

\* The stream ended inside reverse search, entered from a second read with
\* one line in the history, and the read was cancelled.
C31_Witness ==
    /\ pc = "Cancelled"
    /\ stdin.buf = <<97, CR, CtrlR, 97>>
    /\ Unread = <<>>
    /\ history_count = 1
    /\ line = NULL

====
